---- MODULE Spec2Model ----
(***************************************************************************)
(* Device lifecycle engine of android-remote-vm: the port allocator, the   *)
(* VMManager operations (start / stop / restart / remove), the operator    *)
(* path (api/devices.py) and the reaper loops (services/orchestrator.py).  *)
(*                                                                         *)
(* One step of the model is the code a coroutine runs between two awaits,  *)
(* together with the effect of the await that resumed it (a database read  *)
(* or write, a Docker call made in the executor).                          *)
(***************************************************************************)
EXTENDS Integers, Sequences, FiniteSets, Bags, TLC

\* ---------------------------------------------------------------- bounds
\* Number of ports of the configured range used by the model (the
\* configuration's own range holds 101).
PoolSize == 5
\* Device rows provisioned by create_device before the run.
NumDevices == 1
\* The clock stops advancing here (minutes).
MaxTime == 31
\* Device rows of the fleet the reaper loops are run on by themselves.
FleetSize == 6
\* Rows the sessions table may grow to.
MaxSessions == 2
\* The clock of the session specification stops advancing here (minutes).
MaxSessionTime == 61
\* The timeout start_device passes to adb_wait_for_boot (seconds).
BootTimeout == 3
\* Device rows of the fleet the three reaper loops are run on together.
LoopFleetSize == 3
\* Offers one signaling connection may send.
MaxOffers == 2
\* Coordinates are multiples of 1/Den.
Den == 2

\* ------------------------------------------------------------- constants
WEBRTC_PORT_RANGE_START == 49152
WEBRTC_PORT_RANGE_END == WEBRTC_PORT_RANGE_START + PoolSize - 1
\* timedelta(minutes=30) of the idle reaper.
IDLE_MINUTES == 30
\* cpu_percent > 90 or memory_percent > 90.
PRESSURE_PERCENT == 90
\* .limit(5) of the emergency cleanup.
EMERGENCY_LIMIT == 5
\* timedelta(hours=1) of the stale-session reaper, in minutes.
STALE_MINUTES == 60
DISPLAY_W == 1280
DISPLAY_H == 720

\* Python's None (and every falsy column value: no container, no port).
None == 0
\* NULL in a DateTime column.
Never == -1

Devices == 1..NumDevices
Ports == WEBRTC_PORT_RANGE_START..WEBRTC_PORT_RANGE_END

\* The two VMManager instances of the process: the module-level one of
\* api/devices.py and the one the Orchestrator constructs for itself.
VMs == {"api", "orch"}
\* Operator requests (coroutines of the API) and the two device reaper loops.
\* Spec runs one operator request at a time beside the reapers.
OpTasks == {"op1", "op2"}
MainOps == {"op1"}
ReaperTasks == {"idle_reaper", "pressure_reaper"}
Tasks == OpTasks \cup ReaperTasks
\* Minutes the clock may advance by in one step.
ClockSteps == {IDLE_MINUTES, IDLE_MINUTES + 1}
\* Minutes the clock of the session specification may advance by in one step.
StaleSteps == {STALE_MINUTES, STALE_MINUTES + 1}
\* Sampled utilisation values.
Samples == {PRESSURE_PERCENT, PRESSURE_PERCENT + 5}

VARIABLES
    db,              \* devices table: device id -> row
    port_allocator,  \* VM manager -> its PortAllocator (allocated_ports, current_port)
    containers,      \* Docker: container id -> [name, state], in order of creation
    task,            \* coroutine -> its position and locals
    now,             \* datetime.utcnow(), minutes
    leases,          \* history: VM manager -> bag of ports returned and not yet freed
    hist,            \* history of the calls AllocSpec makes on the allocator
    sessions,        \* sessions table: session id -> row, in order of creation
    call,            \* session-side coroutine -> its position and locals
    gate,            \* one adb_wait_for_boot call: its position and locals
    webrtc           \* the WebRTCManager of api/sessions.py, and what it last sent

vars == <<db, port_allocator, containers, task, now, leases, hist, sessions, call, gate,
          webrtc>>

\* ------------------------------------------------------------ PortAllocator
PortAllocatorInit == [allocated_ports |-> {}, current_port |-> WEBRTC_PORT_RANGE_START]

\* The while loop of allocate_port, from cursor value cur.
RECURSIVE allocate_scan(_, _)
allocate_scan(pa, cur) ==
    IF cur <= WEBRTC_PORT_RANGE_END
    THEN IF cur \notin pa.allocated_ports
         THEN [ok |-> TRUE, port |-> cur,
               pa |-> [allocated_ports |-> pa.allocated_ports \cup {cur},
                       current_port |-> cur + 1]]
         ELSE allocate_scan(pa, cur + 1)
    ELSE [ok |-> FALSE, port |-> None, pa |-> [pa EXCEPT !.current_port = cur]]

\* A cursor that is reset to the start of the range on every call, with the
\* membership test lost: the first port of the range is handed out again.
allocate_port_rescan(pa) ==
    [ok |-> TRUE, port |-> WEBRTC_PORT_RANGE_START,
     pa |-> [allocated_ports |-> pa.allocated_ports \cup {WEBRTC_PORT_RANGE_START},
             current_port |-> WEBRTC_PORT_RANGE_START + 1]]

\* The loop written with < for <=: the last port of the range is never reached.
RECURSIVE allocate_scan_short(_, _)
allocate_scan_short(pa, cur) ==
    IF cur < WEBRTC_PORT_RANGE_END
    THEN IF cur \notin pa.allocated_ports
         THEN [ok |-> TRUE, port |-> cur,
               pa |-> [allocated_ports |-> pa.allocated_ports \cup {cur},
                       current_port |-> cur + 1]]
         ELSE allocate_scan_short(pa, cur + 1)
    ELSE [ok |-> FALSE, port |-> None, pa |-> [pa EXCEPT !.current_port = cur]]

allocate_port_short(pa) == allocate_scan_short(pa, pa.current_port)

\* allocate_port: [ok, port, pa]; ok = FALSE is the raised Exception.
allocate_port(pa) == allocate_scan(pa, pa.current_port)

\* A free_port that hands the port back to the scan by moving the cursor down.
free_port_rewind(pa, port) ==
    IF port \in pa.allocated_ports
    THEN [allocated_ports |-> pa.allocated_ports \ {port},
          current_port |-> IF port < pa.current_port THEN port ELSE pa.current_port]
    ELSE pa

free_port(pa, port) ==
    IF port \in pa.allocated_ports
    THEN [pa EXCEPT !.allocated_ports = @ \ {port}]
    ELSE pa

\* History of free_port: the lease on the port, if any, ends.
release(bag, port) == IF BagIn(port, bag) THEN bag (-) SetToBag({port}) ELSE bag

\* ------------------------------------------------------------------ rows
\* A devices row as create_device leaves it.
NewRow ==
    [exists |-> TRUE, status |-> "stopped", container_id |-> None,
     ip_address |-> None, webrtc_port |-> None, adb_port |-> None, last_used |-> 0]

\* The ORM object a select loads from row d.
load(d) ==
    [id |-> d, status |-> db[d].status, container_id |-> db[d].container_id,
     ip_address |-> db[d].ip_address, webrtc_port |-> db[d].webrtc_port,
     adb_port |-> db[d].adb_port, last_used |-> db[d].last_used]

NoObj ==
    [id |-> None, status |-> "", container_id |-> None, ip_address |-> None,
     webrtc_port |-> None, adb_port |-> None, last_used |-> 0]

Columns == {"status", "container_id", "ip_address", "webrtc_port", "adb_port", "last_used"}

\* The UPDATE a commit flushes: the columns whose value on the object differs
\* from the value loaded.
flush(row, obj, loaded) ==
    [c \in DOMAIN row |->
        IF c \in Columns /\ obj[c] # loaded[c] THEN obj[c] ELSE row[c]]

\* hist: the latest call (last), the successful allocations in order, each
\* with whether its port had been freed below the cursor before (returned),
\* every port free_port was called with (freed), and those of them that lay
\* below the cursor when freed (freed_below).
\* tick: the latest iteration of a device reaper loop (history): the loop, the
\* utilisation it sampled, the devices its query returned and the number of
\* running devices at the query.
NoTick == [loop |-> "none", cpu |-> 0, mem |-> 0, selected |-> {}, running |-> 0]
NoCalls == [last |-> [op |-> "none", ok |-> TRUE, port |-> None],
            returned |-> << >>, freed |-> {}, freed_below |-> {}, tick |-> NoTick]

\* boot: how adb_wait_for_boot ended in the start this coroutine is in.
Idle == [pc |-> "idle", op |-> "none", obj |-> NoObj, loaded |-> NoObj,
         container |-> None, queue |-> << >>, boot |-> "none"]

\* Session-side coroutines: a create_session request, an end_session
\* request, a websocket connection and the stale-session reaper loop.
Calls == {"create", "end", "ws", "stale_reaper"}

\* No Session object.
NoSession == [user_id |-> None, device_id |-> None, session_token |-> None,
              status |-> "", started_at |-> Never, ended_at |-> Never]

\* A session-side coroutine that is not running. status_code is how the
\* latest create_session request ended; at is when the stale-session reaper
\* ran the query of the iteration it is in and, for a websocket, when its
\* loop last handled a message (Never: not yet).
Resting == [pc |-> "idle", status_code |-> 0, user |-> None, device |-> NoObj,
            session |-> None, row |-> NoSession, obj |-> NoSession,
            queue |-> << >>, at |-> 0]

\* No adb_wait_for_boot call was made.
NoGate == [pc |-> "none", i |-> 0, waited |-> 0, seen |-> << >>, result |-> "none"]

\* No adb command was sent.
NoCommand == [cmd |-> "none", args |-> << >>]

\* WebRTCManager.__init__: no peer connection; no message was received, no
\* response returned, nothing relayed.
NoBindings == [peer_connections |-> << >>, pcs |-> << >>, message |-> "none",
               response |-> "none", relayed |-> None, sent |-> NoCommand]

\* Coroutines between their first and their last await.
Busy == {t \in Tasks : task[t].pc # "idle"}
\* The coroutines in the middle of an operation on device d.
On(d) == {t \in Busy : task[t].obj.id = d}

\* The model runs one reaper iteration at a time.
ReapersAsleep == \A r \in ReaperTasks : task[r].pc = "idle"

VmOf(t) == IF t \in OpTasks THEN "api" ELSE "orch"

Init ==
    /\ db = [d \in Devices |-> NewRow]
    /\ port_allocator = [vm \in VMs |-> PortAllocatorInit]
    /\ containers = << >>
    /\ task = [t \in Tasks |-> Idle]
    /\ now = 0
    /\ leases = [vm \in VMs |-> EmptyBag]
    /\ hist = NoCalls
    /\ sessions = << >>
    /\ call = [c \in Calls |-> Resting]
    /\ gate = NoGate
    /\ webrtc = NoBindings

\* -------------------------------------------------------------- VMManager
\* start_device up to its first await: both ports are allocated and set on
\* the device object. ok = FALSE is the exception of allocate_port; got are
\* the ports the call obtained.
start_device_enter(pa, obj) ==
    LET a1 == allocate_port(pa)
        a2 == allocate_port(a1.pa)
    IN  IF ~a1.ok THEN [ok |-> FALSE, pa |-> a1.pa, got |-> << >>, obj |-> obj]
        ELSE IF ~a2.ok
        THEN [ok |-> FALSE, pa |-> a2.pa, got |-> <<a1.port>>, obj |-> obj]
        ELSE [ok |-> TRUE, pa |-> a2.pa, got |-> <<a1.port, a2.port>>,
              obj |-> [obj EXCEPT !.webrtc_port = a1.port, !.adb_port = a2.port]]

SeqBag(s) == [p \in {s[i] : i \in DOMAIN s} |-> Cardinality({i \in DOMAIN s : s[i] = p})]

\* "Free allocated ports" of stop_device and remove_device.
free_device_ports(pa, obj) ==
    LET pa1 == IF obj.webrtc_port # None THEN free_port(pa, obj.webrtc_port) ELSE pa
    IN  IF obj.adb_port # None THEN free_port(pa1, obj.adb_port) ELSE pa1

release_device_ports(bag, obj) ==
    LET b1 == IF obj.webrtc_port # None THEN release(bag, obj.webrtc_port) ELSE bag
    IN  IF obj.adb_port # None THEN release(b1, obj.adb_port) ELSE b1

\* stop_device up to its first await, then the caller's device.status = "stopped"
\* when stop_device returned at once (no container_id).
stop_device_enter(t, op, obj, loaded, rest) ==
    IF obj.container_id = None
    THEN [pc |-> "commit", op |-> op, obj |-> [obj EXCEPT !.status = "stopped"],
          loaded |-> loaded, container |-> None, queue |-> rest, boot |-> "none"]
    ELSE [pc |-> "rt_stop", op |-> op, obj |-> obj, loaded |-> loaded,
          container |-> None, queue |-> rest, boot |-> "none"]

\* A reaper loop goes on to the next selected device, or to sleep.
next_selected(t, queue) ==
    IF queue = << >> THEN Idle
    ELSE stop_device_enter(t, "stop", Head(queue), Head(queue), Tail(queue))

\* ------------------------------------------------------- Docker (executor)
\* A container that was removed: its id is never handed out again.
Removed == [name |-> None, state |-> "removed"]
Live(cid) == cid \in DOMAIN containers /\ containers[cid].state # "removed"
Named(d) == {cid \in DOMAIN containers : Live(cid) /\ containers[cid].name = d}

\* ------------------------------------------------------------ control_device
\* POST /{device_id}/control, action start: the row is loaded and
\* start_device runs to its first await.
ControlStart(t, d) ==
    /\ t \in OpTasks /\ task[t].pc = "idle" /\ db[d].exists
    /\ LET o == load(d)
           r == start_device_enter(port_allocator["api"], o)
       IN  /\ port_allocator' = [port_allocator EXCEPT !["api"] = r.pa]
           /\ leases' = [leases EXCEPT !["api"] = @ (+) SeqBag(r.got)]
           /\ task' = IF r.ok
                      THEN [task EXCEPT ![t] = [pc |-> "rt_remove", op |-> "start",
                                obj |-> r.obj, loaded |-> o, container |-> None,
                                queue |-> << >>, boot |-> "none"]]
                      ELSE task
    /\ UNCHANGED <<db, containers, now, hist, sessions, call, gate, webrtc>>

\* action stop.
ControlStop(t, d) ==
    /\ t \in OpTasks /\ task[t].pc = "idle" /\ db[d].exists
    /\ task' = [task EXCEPT ![t] = stop_device_enter(t, "stop", load(d), load(d), << >>)]
    /\ UNCHANGED <<db, port_allocator, containers, now, leases, hist, sessions, call, gate, webrtc>>

\* action restart: stop_device when the object has a container_id, else
\* start_device at once.
ControlRestart(t, d) ==
    /\ t \in OpTasks /\ task[t].pc = "idle" /\ db[d].exists
    /\ LET o == load(d)
           r == start_device_enter(port_allocator["api"], o)
       IN  IF o.container_id # None
           THEN /\ task' = [task EXCEPT ![t] = [pc |-> "rt_stop", op |-> "restart",
                                obj |-> o, loaded |-> o, container |-> None,
                                queue |-> << >>, boot |-> "none"]]
                /\ UNCHANGED <<port_allocator, leases>>
           ELSE /\ port_allocator' = [port_allocator EXCEPT !["api"] = r.pa]
                /\ leases' = [leases EXCEPT !["api"] = @ (+) SeqBag(r.got)]
                /\ task' = IF r.ok
                           THEN [task EXCEPT ![t] = [pc |-> "rt_remove", op |-> "restart",
                                     obj |-> r.obj, loaded |-> o, container |-> None,
                                     queue |-> << >>, boot |-> "none"]]
                           ELSE task
    /\ UNCHANGED <<db, containers, now, hist, sessions, call, gate, webrtc>>

\* DockerRuntime.start_android_vm, "Remove existing container if any".
\* fail: the Docker client is unavailable or the call raises.
RtRemove(t, fail) ==
    /\ task[t].pc = "rt_remove"
    /\ IF fail
       THEN /\ task' = [task EXCEPT ![t] = Idle]
            /\ UNCHANGED containers
       ELSE /\ containers' = [cid \in DOMAIN containers |->
                    IF cid \in Named(task[t].obj.id)
                    THEN Removed
                    ELSE containers[cid]]
            /\ task' = [task EXCEPT ![t].pc = "rt_run"]
    /\ UNCHANGED <<db, port_allocator, now, leases, hist, sessions, call, gate, webrtc>>

\* client.containers.run on a runtime that would accept a name already in use.
RtRunAnyName(t, fail) ==
    /\ task[t].pc = "rt_run"
    /\ IF fail
       THEN /\ task' = [task EXCEPT ![t] = Idle]
            /\ UNCHANGED containers
       ELSE /\ containers' = Append(containers,
                                    [name |-> task[t].obj.id, state |-> "running"])
            /\ task' = IF task[t].op = "cancelled"
                       THEN [task EXCEPT ![t] = Idle]
                       ELSE [task EXCEPT ![t].pc = "gate",
                                         ![t].container = Len(containers) + 1]
    /\ UNCHANGED <<db, port_allocator, now, leases, hist, sessions, call, gate, webrtc>>

\* DockerRuntime.start_android_vm, client.containers.run: Docker refuses a
\* name that is in use. When the awaiting coroutine was cancelled meanwhile,
\* the executor thread still runs the call and its result is dropped.
RtRun(t, fail) ==
    /\ task[t].pc = "rt_run"
    /\ IF fail \/ Named(task[t].obj.id) # {}
       THEN /\ task' = [task EXCEPT ![t] = Idle]
            /\ UNCHANGED containers
       ELSE /\ containers' = Append(containers,
                                    [name |-> task[t].obj.id, state |-> "running"])
            /\ task' = IF task[t].op = "cancelled"
                       THEN [task EXCEPT ![t] = Idle]
                       ELSE [task EXCEPT ![t].pc = "gate",
                                         ![t].container = Len(containers) + 1]
    /\ UNCHANGED <<db, port_allocator, now, leases, hist, sessions, call, gate, webrtc>>

GateOutcomes == {"ready", "timeout", "error"}

\* A start_device whose "except TimeoutError" and "except Exception" around
\* the boot wait are lost: a boot wait that does not end ready fails the start.
GateFatal(t, outcome) ==
    /\ task[t].pc = "gate"
    /\ outcome \in GateOutcomes
    /\ task' = IF outcome = "ready"
               THEN [task EXCEPT ![t].pc = "commit", ![t].boot = outcome,
                        ![t].obj = IF task[t].op = "start"
                                   THEN [@ EXCEPT !.status = "running",
                                                  !.container_id = task[t].container,
                                                  !.ip_address = task[t].container,
                                                  !.last_used = now]
                                   ELSE [@ EXCEPT !.status = "running", !.last_used = now]]
               ELSE [task EXCEPT ![t] = Idle]
    /\ UNCHANGED <<db, port_allocator, containers, now, leases, hist, sessions, call, gate, webrtc>>

\* adb_start_server and adb_wait_for_boot end (ready, TimeoutError or another
\* exception, all three survived by start_device), start_device returns and
\* control_device sets the object's columns.
Gate(t, outcome) ==
    /\ task[t].pc = "gate"
    /\ outcome \in GateOutcomes
    /\ task' = [task EXCEPT ![t].pc = "commit", ![t].boot = outcome,
                   ![t].obj = IF task[t].op = "start"
                              THEN [@ EXCEPT !.status = "running",
                                             !.container_id = task[t].container,
                                             !.ip_address = task[t].container,
                                             !.last_used = now]
                              ELSE [@ EXCEPT !.status = "running", !.last_used = now]]
    /\ UNCHANGED <<db, port_allocator, containers, now, leases, hist, sessions, call, gate, webrtc>>

\* stop_device called by a reaper loop that has no try/except: the exception
\* leaves the while loop and the loop's task is over.
RtStopUncaught(t, fail) ==
    /\ task[t].pc = "rt_stop"
    /\ t \in ReaperTasks
    /\ LET o == task[t].obj
       IN  IF fail
           THEN /\ task' = [task EXCEPT ![t] = [Idle EXCEPT !.pc = "dead"]]
                /\ UNCHANGED <<containers, port_allocator, leases>>
           ELSE /\ containers' = [cid \in DOMAIN containers |->
                        IF cid = o.container_id /\ containers[cid].state = "running"
                        THEN [containers[cid] EXCEPT !.state = "exited"]
                        ELSE containers[cid]]
                /\ port_allocator' = [port_allocator EXCEPT ![VmOf(t)] =
                                        free_device_ports(@, o)]
                /\ leases' = [leases EXCEPT ![VmOf(t)] = release_device_ports(@, o)]
                /\ task' = [task EXCEPT ![t].pc = "commit",
                                        ![t].obj.status = "stopped"]
    /\ UNCHANGED <<db, now, hist, sessions, call, gate, webrtc>>

\* stop_device with the two free_port calls in a finally clause: the ports
\* are freed when _stop_container raised, too.
RtStopFreesAnyway(t, fail) ==
    /\ task[t].pc = "rt_stop"
    /\ LET o == task[t].obj
           vm == VmOf(t)
           pa == free_device_ports(port_allocator[vm], o)
           r == start_device_enter(pa, o)
       IN  IF fail
           THEN /\ task' = [task EXCEPT ![t] = Idle]
                /\ port_allocator' = [port_allocator EXCEPT ![vm] = pa]
                /\ leases' = [leases EXCEPT ![vm] = release_device_ports(@, o)]
                /\ UNCHANGED containers
           ELSE /\ containers' = [cid \in DOMAIN containers |->
                        IF cid = o.container_id /\ containers[cid].state = "running"
                        THEN [containers[cid] EXCEPT !.state = "exited"]
                        ELSE containers[cid]]
                /\ IF task[t].op = "restart"
                   THEN /\ port_allocator' = [port_allocator EXCEPT ![vm] = r.pa]
                        /\ leases' = [leases EXCEPT ![vm] =
                                        release_device_ports(@, o) (+) SeqBag(r.got)]
                        /\ task' = IF r.ok
                                   THEN [task EXCEPT ![t].pc = "rt_remove", ![t].obj = r.obj]
                                   ELSE [task EXCEPT ![t] = Idle]
                   ELSE /\ port_allocator' = [port_allocator EXCEPT ![vm] = pa]
                        /\ leases' = [leases EXCEPT ![vm] = release_device_ports(@, o)]
                        /\ task' = [task EXCEPT ![t].pc = "commit",
                                                ![t].obj.status = "stopped"]
    /\ UNCHANGED <<db, now, hist, sessions, call, gate, webrtc>>

\* VMManager._stop_container, then the rest of stop_device and of its caller
\* up to the next await.
RtStop(t, fail) ==
    /\ task[t].pc = "rt_stop"
    /\ LET o == task[t].obj
           vm == VmOf(t)
           pa == free_device_ports(port_allocator[vm], o)
           r == start_device_enter(pa, o)
       IN  IF fail
           THEN /\ task' = [task EXCEPT ![t] = Idle]
                /\ UNCHANGED <<containers, port_allocator, leases>>
           ELSE /\ containers' = [cid \in DOMAIN containers |->
                        IF cid = o.container_id /\ containers[cid].state = "running"
                        THEN [containers[cid] EXCEPT !.state = "exited"]
                        ELSE containers[cid]]
                /\ IF task[t].op = "restart"
                   THEN /\ port_allocator' = [port_allocator EXCEPT ![vm] = r.pa]
                        /\ leases' = [leases EXCEPT ![vm] =
                                        release_device_ports(@, o) (+) SeqBag(r.got)]
                        /\ task' = IF r.ok
                                   THEN [task EXCEPT ![t].pc = "rt_remove", ![t].obj = r.obj]
                                   ELSE [task EXCEPT ![t] = Idle]
                   ELSE /\ port_allocator' = [port_allocator EXCEPT ![vm] = pa]
                        /\ leases' = [leases EXCEPT ![vm] = release_device_ports(@, o)]
                        /\ task' = [task EXCEPT ![t].pc = "commit",
                                                ![t].obj.status = "stopped"]
    /\ UNCHANGED <<db, now, hist, sessions, call, gate, webrtc>>

\* await db.commit(): the UPDATE of the changed columns; a row deleted
\* meanwhile makes the flush raise. An operator request ends; a reaper goes
\* on with its next device.
Commit(t) ==
    /\ task[t].pc = "commit"
    /\ LET d == task[t].obj.id
       IN  IF db[d].exists
           THEN /\ db' = [db EXCEPT ![d] = flush(@, task[t].obj, task[t].loaded)]
                /\ task' = [task EXCEPT ![t] =
                              IF t \in OpTasks THEN Idle ELSE next_selected(t, task[t].queue)]
           ELSE /\ task' = [task EXCEPT ![t] = Idle]
                /\ UNCHANGED db
    /\ UNCHANGED <<port_allocator, containers, now, leases, hist, sessions, call, gate, webrtc>>

\* ------------------------------------------------------------ delete_device
DeleteDevice(t, d) ==
    /\ t \in OpTasks /\ task[t].pc = "idle" /\ db[d].exists
    /\ task' = [task EXCEPT ![t] =
                  [pc |-> IF db[d].container_id # None THEN "rt_destroy" ELSE "commit_delete",
                   op |-> "delete", obj |-> load(d), loaded |-> load(d),
                   container |-> None, queue |-> << >>, boot |-> "none"]]
    /\ UNCHANGED <<db, port_allocator, containers, now, leases, hist, sessions, call, gate, webrtc>>

\* remove_device swallowing the failure of _remove_container: delete_device
\* goes on to delete the row.
RtDestroyIgnoresFailure(t, fail) ==
    /\ task[t].pc = "rt_destroy"
    /\ LET o == task[t].obj
       IN  IF fail
           THEN /\ task' = [task EXCEPT ![t].pc = "commit_delete"]
                /\ UNCHANGED <<containers, port_allocator, leases>>
           ELSE /\ containers' = [cid \in DOMAIN containers |->
                        IF cid = o.container_id
                        THEN Removed
                        ELSE containers[cid]]
                /\ port_allocator' = [port_allocator EXCEPT !["api"] =
                                        free_device_ports(@, o)]
                /\ leases' = [leases EXCEPT !["api"] = release_device_ports(@, o)]
                /\ task' = [task EXCEPT ![t].pc = "commit_delete"]
    /\ UNCHANGED <<db, now, hist, sessions, call, gate, webrtc>>

\* VMManager._remove_container, then the rest of remove_device.
RtDestroy(t, fail) ==
    /\ task[t].pc = "rt_destroy"
    /\ LET o == task[t].obj
       IN  IF fail
           THEN /\ task' = [task EXCEPT ![t] = Idle]
                /\ UNCHANGED <<containers, port_allocator, leases>>
           ELSE /\ containers' = [cid \in DOMAIN containers |->
                        IF cid = o.container_id
                        THEN Removed
                        ELSE containers[cid]]
                /\ port_allocator' = [port_allocator EXCEPT !["api"] =
                                        free_device_ports(@, o)]
                /\ leases' = [leases EXCEPT !["api"] = release_device_ports(@, o)]
                /\ task' = [task EXCEPT ![t].pc = "commit_delete"]
    /\ UNCHANGED <<db, now, hist, sessions, call, gate, webrtc>>

\* await db.delete(device); await db.commit().
CommitDelete(t) ==
    /\ task[t].pc = "commit_delete"
    /\ db' = [db EXCEPT ![task[t].obj.id] = [NewRow EXCEPT !.exists = FALSE]]
    /\ task' = [task EXCEPT ![t] = Idle]
    /\ UNCHANGED <<port_allocator, containers, now, leases, hist, sessions, call, gate, webrtc>>

\* -------------------------------------------------------------- Orchestrator
Orderings(S) ==
    {q \in [1..Cardinality(S) -> S] : \A i, j \in 1..Cardinality(S) : i # j => q[i] # q[j]}

\* A limit that lets one row too many through.
LimitLoose(q, n) == IF Len(q) <= n + 1 THEN q ELSE SubSeq(q, 1, n + 1)

\* The first n elements of q.
Limit(q, n) == IF Len(q) <= n THEN q ELSE SubSeq(q, 1, n)

\* The same query with <= for <: a device used exactly 30 minutes ago counts
\* as idle.
idle_devices_inclusive ==
    LET idle_threshold == now - IDLE_MINUTES
    IN  {d \in DOMAIN db : /\ db[d].exists
                           /\ db[d].status = "running"
                           /\ db[d].last_used <= idle_threshold}

\* The query of _cleanup_idle_devices.
idle_devices ==
    LET idle_threshold == now - IDLE_MINUTES
    IN  {d \in DOMAIN db : /\ db[d].exists
                           /\ db[d].status = "running"
                           /\ db[d].last_used < idle_threshold}

\* The for loop of _cleanup_idle_devices begins: the rows come in an order of
\* the database's choosing, and stop_device of the first runs to its first
\* await.
IdleSelect ==
    \E q \in Orderings(idle_devices) :
        task' = [task EXCEPT !["idle_reaper"] =
                   next_selected("idle_reaper", [i \in DOMAIN q |-> load(q[i])])]

\* One iteration of _cleanup_idle_devices: the query, and stop_device of the
\* first device selected up to its first await.
IdleTick ==
    /\ ReapersAsleep
    /\ idle_devices # {}
    /\ IdleSelect
    /\ UNCHANGED <<db, port_allocator, containers, now, leases, hist, sessions, call, gate, webrtc>>

running_devices == {d \in DOMAIN db : db[d].exists /\ db[d].status = "running"}

\* ORDER BY last_used ASC: the orders of S the database may return (rows
\* with equal last_used come in any order).
RECURSIVE by_last_used(_)
by_last_used(S) ==
    IF S = {} THEN {<< >>}
    ELSE UNION {{<<d>> \o q : q \in by_last_used(S \ {d})} :
                  d \in {e \in S : \A f \in S : db[e].last_used <= db[f].last_used}}

\* The query of _emergency_resource_cleanup (least recently used first, at
\* most five), and stop_device of the first device selected.
EmergencySelect ==
    \E q \in by_last_used(running_devices) :
        task' = [task EXCEPT !["pressure_reaper"] =
                   next_selected("pressure_reaper",
                       [i \in DOMAIN Limit(q, EMERGENCY_LIMIT) |-> load(q[i])])]

\* One iteration of _monitor_resources whose sample exceeds the threshold:
\* _emergency_resource_cleanup's query and stop_device of the first device
\* selected.
PressureTick(cpu_percent, memory_percent) ==
    /\ ReapersAsleep
    /\ cpu_percent > PRESSURE_PERCENT \/ memory_percent > PRESSURE_PERCENT
    /\ running_devices # {}
    /\ EmergencySelect
    /\ UNCHANGED <<db, port_allocator, containers, now, leases, hist, sessions, call, gate, webrtc>>

\* The coroutine of a start or restart request is cancelled while it awaits
\* the executor (start_android_vm) or the boot wait: CancelledError is not an
\* Exception, so no handler of start_device, restart_device or control_device
\* runs. The boot wait's polling ends with its coroutine; a call already
\* handed to the executor thread goes on without it.
Cancel(t) ==
    /\ t \in OpTasks
    /\ task[t].op \in {"start", "restart"}
    /\ task[t].pc \in {"rt_remove", "rt_run", "gate"}
    /\ task' = IF task[t].pc = "gate"
               THEN [task EXCEPT ![t] = Idle]
               ELSE [task EXCEPT ![t].op = "cancelled"]
    /\ UNCHANGED <<db, port_allocator, containers, now, leases, hist, sessions, call, gate, webrtc>>

\* Time passes.
Tick(step) ==
    /\ now + step <= MaxTime
    /\ now' = now + step
    /\ UNCHANGED <<db, port_allocator, containers, task, leases, hist, sessions, call, gate, webrtc>>

Next ==
    \/ \E t \in MainOps, d \in Devices : ControlStart(t, d)
    \/ \E t \in MainOps, d \in Devices : ControlStop(t, d)
    \/ \E t \in MainOps, d \in Devices : ControlRestart(t, d)
    \/ \E t \in MainOps, d \in Devices : DeleteDevice(t, d)
    \/ \E t \in Tasks, fail \in BOOLEAN : RtRemove(t, fail)
    \/ \E t \in Tasks, fail \in BOOLEAN : RtRun(t, fail)
    \/ \E t \in Tasks, outcome \in GateOutcomes : Gate(t, outcome)
    \/ \E t \in Tasks, fail \in BOOLEAN : RtStop(t, fail)
    \/ \E t \in Tasks, fail \in BOOLEAN : RtDestroy(t, fail)
    \/ \E t \in Tasks : Commit(t)
    \/ \E t \in Tasks : CommitDelete(t)
    \/ IdleTick
    \/ \E cpu \in Samples, mem \in Samples : PressureTick(cpu, mem)
    \/ \E step \in ClockSteps : Tick(step)

Spec == Init /\ [][Next]_vars

\* The operator path with requests that may be cancelled.
CancelNext ==
    \/ Next
    \/ \E t \in MainOps : Cancel(t)

CancelSpec == Init /\ [][CancelNext]_vars

\* The ports a row of the fleet recorded when an earlier process started it.
FleetPort(k) == WEBRTC_PORT_RANGE_START + (k % PoolSize)

\* A row of the fleet: running as control_device's start left it, or stopped
\* as create_device left it; last_used is stamp.
FleetRow(d, running, stamp) ==
    IF running
    THEN [exists |-> TRUE, status |-> "running", container_id |-> d, ip_address |-> d,
          webrtc_port |-> FleetPort(2 * d - 2), adb_port |-> FleetPort(2 * d - 1),
          last_used |-> stamp]
    ELSE [NewRow EXCEPT !.last_used = stamp]

\* ------------------------------------------------------------ api/sessions.py
\* The users table: users 1 and 2 exist and are active, any other id is
\* unknown or inactive; every device was created for user 1.
ActiveUsers == {1, 2}
UserIds == 1..3
owner(d) == 1

\* The values secrets.token_urlsafe(32) may return.
Tokens == 1..MaxSessions
SessionIds == 1..MaxSessions

\* The model runs one session-side coroutine between its awaits at a time,
\* beside websockets that wait for a message.
Quiet == \A c \in Calls : call[c].pc \in {"idle", "open"}

\* The UPDATE a commit flushes for a Session object.
session_flush(row, obj, loaded) ==
    [row EXCEPT !.status = IF obj.status # loaded.status THEN obj.status ELSE @,
                !.ended_at = IF obj.ended_at # loaded.ended_at THEN obj.ended_at ELSE @]

\* create_session without "if device.status != running".
CreateSessionUnchecked(u, d) ==
    /\ Quiet
    /\ call["create"].pc = "idle"
    /\ Len(sessions) < MaxSessions
    /\ LET found == d \in DOMAIN db /\ db[d].exists
           code == IF u \notin ActiveUsers THEN 404
                   ELSE IF ~found THEN 404
                   ELSE IF owner(d) # u THEN 403
                   ELSE 0
       IN  call' = [call EXCEPT !["create"] =
                      IF code = 0
                      THEN [Resting EXCEPT !.pc = "insert", !.user = u, !.device = load(d)]
                      ELSE [Resting EXCEPT !.status_code = code]]
    /\ UNCHANGED <<db, port_allocator, containers, task, now, leases, hist, sessions, gate, webrtc>>

\* POST /sessions/ up to its commit: the user and the device are selected
\* and checked; status_code is that of the HTTPException raised, if any.
CreateSession(u, d) ==
    /\ Quiet
    /\ call["create"].pc = "idle"
    /\ Len(sessions) < MaxSessions
    /\ LET found == d \in DOMAIN db /\ db[d].exists
           code == IF u \notin ActiveUsers THEN 404
                   ELSE IF ~found THEN 404
                   ELSE IF owner(d) # u THEN 403
                   ELSE IF db[d].status # "running" THEN 400
                   ELSE 0
       IN  call' = [call EXCEPT !["create"] =
                      IF code = 0
                      THEN [Resting EXCEPT !.pc = "insert", !.user = u, !.device = load(d)]
                      ELSE [Resting EXCEPT !.status_code = code]]
    /\ UNCHANGED <<db, port_allocator, containers, task, now, leases, hist, sessions, gate, webrtc>>

\* secrets.token_urlsafe(32), db.add and the commit: the INSERT, which the
\* unique index on session_token refuses (IntegrityError) when the token
\* drawn is that of a stored session.
InsertSession(token) ==
    /\ call["create"].pc = "insert"
    /\ IF token \in {sessions[s].session_token : s \in DOMAIN sessions}
       THEN /\ call' = [call EXCEPT !["create"] = [Resting EXCEPT !.status_code = 500]]
            /\ UNCHANGED sessions
       ELSE /\ sessions' = Append(sessions,
                                  [user_id |-> call["create"].user,
                                   device_id |-> call["create"].device.id,
                                   session_token |-> token,
                                   status |-> "active",
                                   started_at |-> now,
                                   ended_at |-> Never])
            /\ call' = [call EXCEPT !["create"] =
                           [Resting EXCEPT !.status_code = 201]]
    /\ UNCHANGED <<db, port_allocator, containers, task, now, leases, hist, gate, webrtc>>

\* POST /sessions/{session_id}/end up to its commit.
EndSession(s) ==
    /\ Quiet
    /\ call["end"].pc = "idle"
    /\ call' = [call EXCEPT !["end"] =
                   IF s \in DOMAIN sessions
                   THEN [Resting EXCEPT !.pc = "commit", !.session = s,
                                        !.row = sessions[s],
                                        !.obj = [sessions[s] EXCEPT !.status = "ended",
                                                                    !.ended_at = now]]
                   ELSE Resting]
    /\ UNCHANGED <<db, port_allocator, containers, task, now, leases, hist, sessions, gate, webrtc>>

\* The commit of end_session, of the websocket's disconnect handler or of
\* the stale-session reaper: the UPDATE of the changed columns.
flushed(c) ==
    [sessions EXCEPT ![call[c].session] = session_flush(@, call[c].obj, call[c].row)]

EndCommit ==
    /\ call["end"].pc = "commit"
    /\ sessions' = flushed("end")
    /\ call' = [call EXCEPT !["end"] = Resting]
    /\ UNCHANGED <<db, port_allocator, containers, task, now, leases, hist, gate, webrtc>>

\* websocket_endpoint admitting the token of any stored session, whatever
\* its status.
WsConnectAnyStatus(token) ==
    /\ Quiet
    /\ call["ws"].pc = "idle"
    /\ LET found == {s \in DOMAIN sessions : sessions[s].session_token = token}
       IN  call' = [call EXCEPT !["ws"] =
                      IF found # {}
                      THEN LET s == CHOOSE x \in found : TRUE
                           IN  [Resting EXCEPT !.pc = "verify", !.session = s,
                                               !.row = sessions[s]]
                      ELSE Resting]
    /\ UNCHANGED <<db, port_allocator, containers, task, now, leases, hist, sessions, gate, webrtc>>

\* websocket_endpoint: accept, and the session is selected by its token.
WsConnect(token) ==
    /\ Quiet
    /\ call["ws"].pc = "idle"
    /\ LET found == {s \in DOMAIN sessions : sessions[s].session_token = token}
       IN  call' = [call EXCEPT !["ws"] =
                      IF \E s \in found : sessions[s].status = "active"
                      THEN LET s == CHOOSE x \in found : TRUE
                           IN  [Resting EXCEPT !.pc = "verify", !.session = s,
                                               !.row = sessions[s]]
                      ELSE Resting]
    /\ UNCHANGED <<db, port_allocator, containers, task, now, leases, hist, sessions, gate, webrtc>>

\* websocket_endpoint: the device of the session is selected.
WsVerify ==
    /\ call["ws"].pc = "verify"
    /\ LET d == call["ws"].row.device_id
       IN  call' = [call EXCEPT !["ws"] =
                      IF d \in DOMAIN db /\ db[d].exists /\ db[d].status = "running"
                      THEN [@ EXCEPT !.pc = "open", !.device = load(d), !.at = Never]
                      ELSE Resting]
    /\ UNCHANGED <<db, port_allocator, containers, task, now, leases, hist, sessions, gate, webrtc>>

\* The signaling loop handles one message (offer, ice-candidate or input):
\* receive_text, webrtc_manager.handle_message, send_text. No row is touched.
WsMessage ==
    /\ call["ws"].pc = "open"
    /\ call' = [call EXCEPT !["ws"].at = now]
    /\ UNCHANGED <<db, port_allocator, containers, task, now, leases, hist, sessions, gate, webrtc>>

\* The disconnect handler doing what end_session does: the session is set
\* ended, with ended_at.
WsDisconnectEnds ==
    /\ Quiet
    /\ call["ws"].pc = "open"
    /\ LET s == call["ws"].session
       IN  call' = [call EXCEPT !["ws"] =
                      [@ EXCEPT !.pc = "commit", !.row = sessions[s],
                                !.obj = [sessions[s] EXCEPT !.status = "ended",
                                                            !.ended_at = now]]]
    /\ UNCHANGED <<db, port_allocator, containers, task, now, leases, hist, sessions, gate, webrtc>>

\* WebSocketDisconnect: the session is selected again and set disconnected.
WsDisconnect ==
    /\ Quiet
    /\ call["ws"].pc = "open"
    /\ LET s == call["ws"].session
       IN  call' = [call EXCEPT !["ws"] =
                      [@ EXCEPT !.pc = "commit", !.row = sessions[s],
                                !.obj = [sessions[s] EXCEPT !.status = "disconnected"]]]
    /\ UNCHANGED <<db, port_allocator, containers, task, now, leases, hist, sessions, gate, webrtc>>

WsCommit ==
    /\ call["ws"].pc = "commit"
    /\ sessions' = flushed("ws")
    /\ call' = [call EXCEPT !["ws"] = Resting]
    /\ UNCHANGED <<db, port_allocator, containers, task, now, leases, hist, gate, webrtc>>

\* ------------------------------------------------ _cleanup_stale_sessions
\* The same query with <= for <: a session started exactly one hour ago
\* counts as stale.
stale_sessions_inclusive ==
    LET stale_threshold == now - STALE_MINUTES
    IN  {s \in DOMAIN sessions : /\ sessions[s].status = "disconnected"
                                 /\ sessions[s].started_at <= stale_threshold}

\* The query of _cleanup_stale_sessions.
stale_sessions ==
    LET stale_threshold == now - STALE_MINUTES
    IN  {s \in DOMAIN sessions : /\ sessions[s].status = "disconnected"
                                 /\ sessions[s].started_at < stale_threshold}

\* The for loop of _cleanup_stale_sessions reaches the next session selected
\* (queue holds the rows as the query loaded them) and sets it ended, or
\* the loop is over and the reaper sleeps.
next_stale(queue, at) ==
    IF queue = << >>
    THEN Resting
    ELSE [Resting EXCEPT !.pc = "commit", !.session = Head(queue).id,
                         !.row = Head(queue).row,
                         !.obj = [Head(queue).row EXCEPT !.status = "ended",
                                                         !.ended_at = now],
                         !.queue = Tail(queue), !.at = at]

\* One iteration of _cleanup_stale_sessions that selects something.
StaleTick ==
    /\ Quiet
    /\ call["stale_reaper"].pc = "idle"
    /\ stale_sessions # {}
    /\ \E q \in Orderings(stale_sessions) :
          call' = [call EXCEPT !["stale_reaper"] =
                     next_stale([i \in DOMAIN q |-> [id |-> q[i], row |-> sessions[q[i]]]],
                                now)]
    /\ UNCHANGED <<db, port_allocator, containers, task, now, leases, hist, sessions, gate, webrtc>>

\* await db.commit() of the loop, and the loop goes on.
StaleCommit ==
    /\ call["stale_reaper"].pc = "commit"
    /\ sessions' = flushed("stale_reaper")
    /\ call' = [call EXCEPT !["stale_reaper"] =
                   next_stale(@.queue, @.at)]
    /\ UNCHANGED <<db, port_allocator, containers, task, now, leases, hist, gate, webrtc>>

\* Time passes between the requests and the reaper iterations: the clock
\* moves by an hour at a time, and none of them takes that long.
SessionTick(step) ==
    /\ Quiet
    /\ now + step <= MaxSessionTime
    /\ now' = now + step
    /\ UNCHANGED <<db, port_allocator, containers, task, leases, hist, sessions, call, gate, webrtc>>

\* The process has come up on a database and a Docker host that hold the
\* devices of an earlier run, any of them running since minute 0, and no
\* session.
SessionInit ==
    /\ \E up \in SUBSET Devices :
          /\ db = [d \in Devices |-> FleetRow(d, d \in up, 0)]
          /\ containers = [d \in Devices |->
                              IF d \in up THEN [name |-> d, state |-> "running"]
                              ELSE Removed]
    /\ port_allocator = [vm \in VMs |-> PortAllocatorInit]
    /\ task = [t \in Tasks |-> Idle]
    /\ now = 0
    /\ leases = [vm \in VMs |-> EmptyBag]
    /\ hist = NoCalls
    /\ sessions = << >>
    /\ call = [c \in Calls |-> Resting]
    /\ gate = NoGate
    /\ webrtc = NoBindings

\* Session requests, a websocket connection and the stale-session reaper on
\* devices that stay as they are.
SessionNext ==
    \/ \E u \in UserIds, d \in 1..(NumDevices + 1) : CreateSession(u, d)
    \/ \E token \in Tokens : InsertSession(token)
    \/ \E s \in SessionIds : EndSession(s)
    \/ EndCommit
    \/ \E token \in Tokens : WsConnect(token)
    \/ WsVerify
    \/ WsMessage
    \/ WsDisconnect
    \/ WsCommit
    \/ StaleTick
    \/ StaleCommit
    \/ \E step \in StaleSteps : SessionTick(step)

SessionSpec == SessionInit /\ [][SessionNext]_vars

\* A session and its websocket beside the idle reaper.
ActivityNext ==
    \/ \E u \in UserIds, d \in 1..(NumDevices + 1) : CreateSession(u, d)
    \/ \E token \in Tokens : InsertSession(token)
    \/ \E token \in Tokens : WsConnect(token)
    \/ WsVerify
    \/ WsMessage
    \/ WsDisconnect
    \/ WsCommit
    \/ IdleTick
    \/ \E fail \in BOOLEAN : RtStop("idle_reaper", fail)
    \/ Commit("idle_reaper")
    \/ \E step \in ClockSteps : Tick(step)

ActivitySpec == SessionInit /\ [][ActivityNext]_vars

\* ---------------------------------------------------------- WebRTCManager
\* The numbers a client sends as a coordinate, num/Den: below 0, 0, inside,
\* 1 and above 1.
Coords == {[num |-> n, den |-> Den] : n \in {0 - 1, 0, 1, Den, Den + 1}}
\* The coordinates of the swipes tried: below 0 and above 1.
SwipeCoords == {[num |-> n, den |-> Den] : n \in {0 - 1, Den + 1}}

\* int(): truncation towards zero.
Trunc(a, b) == IF a >= 0 THEN a \div b ELSE 0 - ((0 - a) \div b)

\* max(0, min(int(v * extent), extent - 1)).
pixel(v, extent) ==
    LET p == Trunc(v.num * extent, v.den)
        low == IF p <= extent - 1 THEN p ELSE extent - 1
    IN  [num |-> IF low >= 0 THEN low ELSE 0, den |-> 1]

\* self.peer_connections.get(container_id)
pc_get(container_id) ==
    IF container_id \in DOMAIN webrtc.peer_connections
    THEN webrtc.peer_connections[container_id]
    ELSE None

\* self.peer_connections[container_id] = pc
pc_put(container_id, pc) ==
    [c \in DOMAIN webrtc.peer_connections \cup {container_id} |->
        IF c = container_id THEN pc ELSE webrtc.peer_connections[c]]

\* The RTCPeerConnection objects that were created and not closed.
live == {i \in DOMAIN webrtc.pcs : ~webrtc.pcs[i].closed}

\* The signaling loop receives an offer: _handle_offer creates a peer
\* connection and registers it under the container id, starts the H.264
\* player, sets the remote description and answers. With both players
\* failing ("no_stream") or without an sdp field ("no_sdp") it raises, and
\* handle_message returns an error response; the peer connection stays
\* registered.
HandleOffer(outcome) ==
    /\ call["ws"].pc = "open"
    /\ Len(webrtc.pcs) < MaxOffers
    /\ webrtc' = [webrtc EXCEPT
                     !.pcs = Append(@, [closed |-> FALSE,
                                        player |-> outcome # "no_stream",
                                        remote |-> outcome = "answer"]),
                     !.peer_connections = pc_put(call["ws"].device.container_id,
                                                 Len(webrtc.pcs) + 1),
                     !.message = IF outcome = "no_sdp" THEN "offer_no_sdp" ELSE "offer",
                     !.response = IF outcome = "answer" THEN "answer" ELSE "error",
                     !.relayed = Len(webrtc.pcs) + 1]
    /\ UNCHANGED <<db, port_allocator, containers, task, now, leases, hist, sessions, call, gate>>

\* The signaling loop receives an ice-candidate: it is added to the peer
\* connection registered under the container id, if there is one; nothing is
\* returned.
HandleIceCandidate ==
    /\ call["ws"].pc = "open"
    /\ webrtc' = [webrtc EXCEPT !.message = "ice-candidate", !.response = "none",
                                !.relayed = pc_get(call["ws"].device.container_id)]
    /\ UNCHANGED <<db, port_allocator, containers, task, now, leases, hist, sessions, call, gate>>

\* The signaling loop receives an input message with inputType touch:
\* _send_touch_event puts x and y into the adb command as they came.
HandleInput(x, y) ==
    /\ call["ws"].pc = "open"
    /\ webrtc' = [webrtc EXCEPT !.message = "input", !.response = "input-ack",
                                !.relayed = None,
                                !.sent = [cmd |-> "tap", args |-> <<x, y>>]]
    /\ UNCHANGED <<db, port_allocator, containers, task, now, leases, hist, sessions, call, gate>>

\* The signaling loop receives text that is not JSON: json.loads raises in
\* websocket_endpoint, and its except Exception closes the connection.
InvalidJson ==
    /\ call["ws"].pc = "open"
    /\ call' = [call EXCEPT !["ws"] = Resting]
    /\ webrtc' = [webrtc EXCEPT !.message = "invalid_json", !.response = "none",
                                !.relayed = None]
    /\ UNCHANGED <<db, port_allocator, containers, task, now, leases, hist, sessions, gate>>

\* The signaling loop receives JSON that is not an object: message.get
\* raises inside handle_message's try, which returns an error response.
NotAnObject ==
    /\ call["ws"].pc = "open"
    /\ webrtc' = [webrtc EXCEPT !.message = "not_object", !.response = "error",
                                !.relayed = None]
    /\ UNCHANGED <<db, port_allocator, containers, task, now, leases, hist, sessions, call, gate>>

\* The signaling loop receives an object without a type, or with a type
\* that is none of the three: handle_message logs and returns None.
UnknownType ==
    /\ call["ws"].pc = "open"
    /\ webrtc' = [webrtc EXCEPT !.message = "no_type", !.response = "none",
                                !.relayed = None]
    /\ UNCHANGED <<db, port_allocator, containers, task, now, leases, hist, sessions, call, gate>>

\* A data channel exists once a peer connection has its remote description.
DataChannelOpen == \E i \in live : webrtc.pcs[i].remote

\* _handle_datachannel_message: a tap.
DataChannelTap(x, y) ==
    /\ DataChannelOpen
    /\ webrtc' = [webrtc EXCEPT !.sent = [cmd |-> "tap",
                                          args |-> <<pixel(x, DISPLAY_W),
                                                     pixel(y, DISPLAY_H)>>]]
    /\ UNCHANGED <<db, port_allocator, containers, task, now, leases, hist, sessions, call, gate>>

\* _handle_datachannel_message: a swipe.
DataChannelSwipe(x1, y1, x2, y2) ==
    /\ DataChannelOpen
    /\ webrtc' = [webrtc EXCEPT !.sent = [cmd |-> "swipe",
                                          args |-> <<pixel(x1, DISPLAY_W),
                                                     pixel(y1, DISPLAY_H),
                                                     pixel(x2, DISPLAY_W),
                                                     pixel(y2, DISPLAY_H)>>]]
    /\ UNCHANGED <<db, port_allocator, containers, task, now, leases, hist, sessions, call, gate>>

\* The websocket of a session on a running device has been accepted and
\* verified, and its signaling loop waits for the first message.
SignalInit ==
    /\ db = [d \in Devices |-> FleetRow(d, TRUE, 0)]
    /\ containers = [d \in Devices |-> [name |-> d, state |-> "running"]]
    /\ port_allocator = [vm \in VMs |-> PortAllocatorInit]
    /\ task = [t \in Tasks |-> Idle]
    /\ now = 0
    /\ leases = [vm \in VMs |-> EmptyBag]
    /\ hist = NoCalls
    /\ sessions = <<[user_id |-> owner(1), device_id |-> 1, session_token |-> 1,
                     status |-> "active", started_at |-> 0, ended_at |-> Never]>>
    /\ call = [c \in Calls |->
                 IF c = "ws"
                 THEN [Resting EXCEPT !.pc = "open", !.session = 1,
                                      !.row = sessions[1],
                                      !.device = load(1),
                                      !.at = Never]
                 ELSE Resting]
    /\ gate = NoGate
    /\ webrtc = NoBindings

\* One signaling connection: its messages, the messages of its data
\* channel, and its disconnect.
SignalNext ==
    \/ \E outcome \in {"answer", "no_stream", "no_sdp"} : HandleOffer(outcome)
    \/ HandleIceCandidate
    \/ \E x \in Coords, y \in Coords : HandleInput(x, y)
    \/ InvalidJson
    \/ NotAnObject
    \/ UnknownType
    \/ \E x \in Coords, y \in Coords : DataChannelTap(x, y)
    \/ \E x1 \in SwipeCoords, y1 \in SwipeCoords, x2 \in SwipeCoords, y2 \in SwipeCoords :
          DataChannelSwipe(x1, y1, x2, y2)
    \/ WsDisconnect
    \/ WsCommit

SignalSpec == SignalInit /\ [][SignalNext]_vars

\* ------------------------------------------------------- adb_wait_for_boot
\* Seconds "adb wait-for-device" is followed while it blocks: one more than
\* the timeout.
MaxAppear == BootTimeout + 1

\* What one pass of the for loop read: sys.boot_completed is not "1"
\* (dev.bootcomplete is then not read), only sys.boot_completed is "1", or
\* both are.
Observed(sys, dev) == IF ~sys THEN "none" ELSE IF ~dev THEN "sys" ELSE "both"

\* adb_wait_for_boot(serial, timeout) is called and starts
\* "adb wait-for-device".
AdbWaitForBoot ==
    /\ gate.pc = "none"
    /\ gate' = [NoGate EXCEPT !.pc = "wait_for_device"]
    /\ UNCHANGED <<db, port_allocator, containers, task, now, leases, hist, sessions, call, webrtc>>

\* A second passes and "adb wait-for-device" has not returned: the device
\* has not appeared, and the subprocess is awaited without a timeout.
DeviceAbsent ==
    /\ gate.pc = "wait_for_device"
    /\ gate.waited < MaxAppear
    /\ gate' = [gate EXCEPT !.waited = @ + 1]
    /\ UNCHANGED <<db, port_allocator, containers, task, now, leases, hist, sessions, call, webrtc>>

\* "adb wait-for-device" returns: with rc 0 the for loop is entered, or the
\* TimeoutError is raised at once when range(timeout) is empty; any other
\* rc raises RuntimeError.
WaitForDevice(ok) ==
    /\ gate.pc = "wait_for_device"
    /\ gate' = IF ~ok THEN [gate EXCEPT !.pc = "done", !.result = "RuntimeError"]
               ELSE IF BootTimeout = 0
               THEN [gate EXCEPT !.pc = "done", !.result = "TimedOut"]
               ELSE [gate EXCEPT !.pc = "poll"]
    /\ UNCHANGED <<db, port_allocator, containers, task, now, leases, hist, sessions, call, webrtc>>

\* One pass of the for loop up to its sleep: the getprop commands, taken
\* to return at once; with both properties "1" the screen is unlocked, the
\* animations are disabled and the function returns.
Poll(sys, dev) ==
    /\ gate.pc = "poll"
    /\ gate' = [gate EXCEPT !.seen = Append(@, Observed(sys, dev)),
                            !.pc = IF Observed(sys, dev) = "both" THEN "done" ELSE "sleep",
                            !.result = IF Observed(sys, dev) = "both" THEN "Ready" ELSE @]
    /\ UNCHANGED <<db, port_allocator, containers, task, now, leases, hist, sessions, call, webrtc>>

\* await asyncio.sleep(1), and the loop goes on or is over: TimeoutError.
Sleep ==
    /\ gate.pc = "sleep"
    /\ gate' = IF gate.i + 1 < BootTimeout
               THEN [gate EXCEPT !.pc = "poll", !.i = @ + 1, !.waited = @ + 1]
               ELSE [gate EXCEPT !.pc = "done", !.i = @ + 1, !.waited = @ + 1,
                                 !.result = "TimedOut"]
    /\ UNCHANGED <<db, port_allocator, containers, task, now, leases, hist, sessions, call, webrtc>>

\* One call of adb_wait_for_boot, against any device.
GateNext ==
    \/ AdbWaitForBoot
    \/ DeviceAbsent
    \/ \E ok \in BOOLEAN : WaitForDevice(ok)
    \/ \E sys \in BOOLEAN, dev \in BOOLEAN : Poll(sys, dev)
    \/ Sleep

GateSpec == Init /\ [][GateNext]_vars

\* ------------------------------------------- the device reapers by themselves
Fleet == 1..FleetSize

\* last_used of device d in the k-th arrangement: 31, 30 or 29 minutes (and
\* less) before the tick, two devices sharing each value.
Stamp(d, k) == ((d + k) % FleetSize) \div 2

\* The process has just come up on a database and a Docker host that hold a
\* fleet from an earlier run: any set of the devices is running, the
\* allocators are new, and the reaper loops start.
FleetInit ==
    /\ \E up \in SUBSET Fleet, k \in 0..(FleetSize - 1) :
          /\ db = [d \in Fleet |-> FleetRow(d, d \in up, Stamp(d, k))]
          /\ containers = [d \in Fleet |->
                              IF d \in up THEN [name |-> d, state |-> "running"]
                              ELSE Removed]
    /\ port_allocator = [vm \in VMs |-> PortAllocatorInit]
    /\ task = [t \in Tasks |-> Idle]
    /\ now = IDLE_MINUTES + 1
    /\ leases = [vm \in VMs |-> EmptyBag]
    /\ hist = NoCalls
    /\ sessions = << >>
    /\ call = [c \in Calls |-> Resting]
    /\ gate = NoGate
    /\ webrtc = NoBindings

\* One iteration of _cleanup_idle_devices, whatever its query returns.
CleanupIdleDevices ==
    /\ ReapersAsleep
    /\ hist' = [hist EXCEPT !.tick = [loop |-> "idle", cpu |-> 0, mem |-> 0,
                                      selected |-> idle_devices,
                                      running |-> Cardinality(running_devices)]]
    /\ IF idle_devices = {} THEN UNCHANGED task ELSE IdleSelect
    /\ UNCHANGED <<db, port_allocator, containers, now, leases, sessions, call, gate, webrtc>>

\* One iteration of _monitor_resources, whatever psutil reports.
MonitorResources(cpu_percent, memory_percent) ==
    /\ ReapersAsleep
    /\ IF cpu_percent > PRESSURE_PERCENT \/ memory_percent > PRESSURE_PERCENT
       THEN \/ /\ running_devices = {}
               /\ UNCHANGED task
               /\ hist' = [hist EXCEPT !.tick =
                             [loop |-> "pressure", cpu |-> cpu_percent,
                              mem |-> memory_percent, selected |-> {}, running |-> 0]]
            \/ /\ running_devices # {}
               /\ EmergencySelect
               /\ hist' = [hist EXCEPT !.tick =
                             [loop |-> "pressure", cpu |-> cpu_percent,
                              mem |-> memory_percent,
                              selected |-> {task'["pressure_reaper"].obj.id} \cup
                                  {task'["pressure_reaper"].queue[i].id :
                                      i \in DOMAIN task'["pressure_reaper"].queue},
                              running |-> Cardinality(running_devices)]]
       ELSE /\ UNCHANGED task
            /\ hist' = [hist EXCEPT !.tick =
                          [loop |-> "pressure", cpu |-> cpu_percent,
                           mem |-> memory_percent, selected |-> {},
                           running |-> Cardinality(running_devices)]]
    /\ UNCHANGED <<db, port_allocator, containers, now, leases, sessions, call, gate, webrtc>>

ReaperNext ==
    \/ CleanupIdleDevices
    \/ \E cpu \in Samples, mem \in Samples : MonitorResources(cpu, mem)
    \/ \E t \in ReaperTasks, fail \in BOOLEAN : RtStop(t, fail)
    \/ \E t \in ReaperTasks : Commit(t)

ReaperSpec == FleetInit /\ [][ReaperNext]_vars

\* ------------------------------------------------ the three reaper loops
\* The process has come up on a database that holds a fleet, any of its
\* devices running and last used about an hour ago, and the sessions of an
\* earlier run, all disconnected and started 61 minutes ago.
LoopsInit ==
    /\ \E up \in SUBSET (1..LoopFleetSize) :
          /\ db = [d \in 1..LoopFleetSize |-> FleetRow(d, d \in up, d)]
          /\ containers = [d \in 1..LoopFleetSize |->
                              IF d \in up THEN [name |-> d, state |-> "running"]
                              ELSE Removed]
    /\ port_allocator = [vm \in VMs |-> PortAllocatorInit]
    /\ task = [t \in Tasks |-> Idle]
    /\ now = STALE_MINUTES + 1
    /\ leases = [vm \in VMs |-> EmptyBag]
    /\ hist = NoCalls
    /\ sessions = [s \in SessionIds |->
                     [user_id |-> owner(1), device_id |-> 1, session_token |-> s,
                      status |-> "disconnected", started_at |-> 0, ended_at |-> Never]]
    /\ call = [c \in Calls |-> Resting]
    /\ gate = NoGate
    /\ webrtc = NoBindings

\* The loops started by Orchestrator.start, one iteration running at a time.
LoopIdle == Quiet /\ CleanupIdleDevices
LoopMonitor == \E cpu \in Samples, mem \in Samples : Quiet /\ MonitorResources(cpu, mem)
LoopStop == \E t \in ReaperTasks, fail \in BOOLEAN : RtStop(t, fail)
LoopCommit == \E t \in ReaperTasks : Commit(t)
LoopStale == ReapersAsleep /\ StaleTick

LoopsNext ==
    \/ LoopIdle
    \/ LoopMonitor
    \/ LoopStop
    \/ LoopCommit
    \/ LoopStale
    \/ StaleCommit

\* asyncio.sleep returns, so a loop that is alive runs its next iteration
\* again and again; a call handed to the executor returns or raises, and a
\* commit returns.
LoopsSpec ==
    /\ LoopsInit /\ [][LoopsNext]_vars
    /\ SF_vars(LoopIdle) /\ SF_vars(LoopMonitor) /\ SF_vars(LoopStale)
    /\ WF_vars(LoopStop) /\ WF_vars(LoopCommit) /\ WF_vars(StaleCommit)

\* --------------------------------------------- the allocator called directly
\* Any sequence of allocate_port and free_port calls on one PortAllocator.
AllocCall ==
    LET r == allocate_port(port_allocator["api"])
    IN  /\ port_allocator' = [port_allocator EXCEPT !["api"] = r.pa]
        /\ leases' = [leases EXCEPT !["api"] =
                        IF r.ok THEN @ (+) SetToBag({r.port}) ELSE @]
        /\ hist' = [hist EXCEPT
                       !.last = [op |-> "allocate", ok |-> r.ok, port |-> r.port],
                       !.returned = IF r.ok
                                    THEN Append(@, [port |-> r.port,
                                                    refreed |-> r.port \in hist.freed_below])
                                    ELSE @]
        /\ UNCHANGED <<db, containers, task, now, sessions, call, gate, webrtc>>

FreeCall(port) ==
    /\ port_allocator' = [port_allocator EXCEPT !["api"] = free_port(@, port)]
    /\ leases' = [leases EXCEPT !["api"] = release(@, port)]
    /\ hist' = [hist EXCEPT !.last = [op |-> "free", ok |-> TRUE, port |-> port],
                            !.freed = @ \cup {port},
                            !.freed_below = IF port < port_allocator["api"].current_port
                                            THEN @ \cup {port} ELSE @]
    /\ UNCHANGED <<db, containers, task, now, sessions, call, gate, webrtc>>

AllocNext == AllocCall \/ \E port \in Ports : FreeCall(port)

AllocSpec == Init /\ [][AllocNext]_vars

\* ==================================================================== claims
Allocated(vm) == port_allocator[vm].allocated_ports
Cursor(vm) == port_allocator[vm].current_port

StartEnds(t) ==
    /\ task[t].op = "start" /\ task[t].pc # "idle" /\ task'[t].pc = "idle"

\* C2: every start of a stopped device ends either with the row running, the
\* attempt's two ports marked allocated and recorded on the row with an
\* address and a container id, or with the row in error and neither port of
\* the attempt marked allocated.
C2_StartOutcome ==
    [][\A t \in OpTasks :
        (StartEnds(t) /\ task[t].loaded.status = "stopped") =>
            LET d == task[t].obj.id
                w == task[t].obj.webrtc_port
                a == task[t].obj.adb_port
            IN  \/ /\ db'[d].status = "running"
                   /\ {w, a} \subseteq Allocated("api")'
                   /\ db'[d].webrtc_port = w /\ db'[d].adb_port = a
                   /\ db'[d].ip_address # None /\ db'[d].container_id # None
                \/ /\ db'[d].status = "error"
                   /\ w \notin Allocated("api")' /\ a \notin Allocated("api")']_vars

\* A stop of a running device completes: its commit is flushed.
StopCompletes(t) ==
    /\ task[t].op = "stop" /\ task[t].pc = "commit" /\ task'[t].pc # "commit"
    /\ task[t].loaded.status = "running" /\ db[task[t].obj.id].exists

\* C3: after stop completes on a running device the row is stopped, its
\* container id is cleared and neither port recorded on the device is marked
\* allocated in the allocator that leased them.
C3_StopReleases ==
    [][\A t \in Tasks :
        StopCompletes(t) =>
            LET d == task[t].obj.id
            IN  /\ db'[d].status = "stopped"
                /\ db'[d].container_id = None
                /\ task[t].obj.webrtc_port \notin Allocated("api")'
                /\ task[t].obj.adb_port \notin Allocated("api")']_vars

\* C4: a device that is not stopped, with no operation on it in flight, has
\* a container id and two distinct ports recorded, both marked allocated.
C4_NonStoppedHoldsLeases ==
    \A d \in Devices :
        (db[d].exists /\ db[d].status # "stopped" /\ On(d) = {}) =>
            /\ db[d].container_id # None
            /\ db[d].webrtc_port # None /\ db[d].adb_port # None
            /\ db[d].webrtc_port # db[d].adb_port
            /\ {db[d].webrtc_port, db[d].adb_port} \subseteq Allocated("api")

\* C5: a stopped device, with no operation on it in flight, has no container
\* id, no address and no ports recorded, and holds no port marked allocated.
C5_StoppedHoldsNothing ==
    \A d \in Devices :
        (db[d].exists /\ db[d].status = "stopped" /\ On(d) = {}) =>
            /\ db[d].container_id = None /\ db[d].ip_address = None
            /\ db[d].webrtc_port = None /\ db[d].adb_port = None
            /\ db[d].webrtc_port \notin Allocated("api")
            /\ db[d].adb_port \notin Allocated("api")

\* C6: no two operations (operator requests or reaper stops) are in flight
\* on the same device at once.
C6_OneOperationPerDevice ==
    \A t1, t2 \in Busy : t1 # t2 => task[t1].obj.id # task[t2].obj.id

\* C7: when a reaper's stop_device has freed a device's ports, they are no
\* longer marked allocated in the operator path's allocator, which leased them.
C7_ReaperFreesOperatorLease ==
    [][\A t \in ReaperTasks :
        (task[t].pc = "rt_stop" /\ task'[t].pc = "commit") =>
            /\ task[t].obj.webrtc_port \notin Allocated("api")'
            /\ task[t].obj.adb_port \notin Allocated("api")']_vars

Returned(i) == hist.returned[i].port

\* C8: on a fresh allocator with no free_port call, at most PoolSize
\* allocations succeed, their ports are distinct ports of the range, and
\* allocate_port fails only once PoolSize ports were handed out, returning no
\* port and leaving exactly those ports marked.
C8_ExhaustedAfterN ==
    hist.freed = {} =>
        /\ Len(hist.returned) <= PoolSize
        /\ \A i, j \in DOMAIN hist.returned : i # j => Returned(i) # Returned(j)
        /\ \A i \in DOMAIN hist.returned : Returned(i) \in Ports
        /\ (hist.last.op = "allocate" /\ ~hist.last.ok) =>
              /\ Len(hist.returned) = PoolSize
              /\ hist.last.port = None
              /\ Allocated("api") = {Returned(i) : i \in DOMAIN hist.returned}

\* PoolSize allocations succeeded without a free and the next one failed.
C8_Witness ==
    /\ hist.freed = {} /\ Len(hist.returned) = PoolSize
    /\ hist.last.op = "allocate" /\ ~hist.last.ok

\* C9: the cursor never decreases; free_port leaves it unchanged and removes
\* the mark; successive successful allocations return strictly increasing
\* ports, and no allocation returns a port that was freed below the cursor.
C9_CursorForwardOnly ==
    /\ [][/\ Cursor("api")' >= Cursor("api")
          /\ hist'.last.op = "free" =>
                /\ Cursor("api")' = Cursor("api")
                /\ hist'.last.port \notin Allocated("api")']_vars
    /\ [](/\ \A i, j \in DOMAIN hist.returned : i < j => Returned(i) < Returned(j)
          /\ \A i \in DOMAIN hist.returned : ~hist.returned[i].refreed)

\* An allocation succeeds while a freed port lies unmarked below the cursor.
C9_Witness ==
    /\ hist.last.op = "allocate" /\ hist.last.ok
    /\ \E p \in hist.freed_below : p < hist.last.port /\ p \notin Allocated("api")

\* C10: a start request changes state only for a device it loaded as stopped
\* or error: for any other status no port is allocated and nothing begins.
C10_StartRejectedUnlessStopped ==
    [][\A t \in OpTasks :
        (task[t].pc = "idle" /\ task'[t].op = "start") =>
            task'[t].loaded.status \in {"stopped", "error"}]_vars

\* A restart request whose start phase returned commits on a row that exists.
RestartCompletes(t) ==
    /\ task[t].op = "restart" /\ task[t].pc = "commit" /\ task'[t].pc = "idle"
    /\ db[task[t].obj.id].exists

\* C11: when a restart has committed, the row is running with last_used
\* updated, and the container id, address and two ports recorded on it are
\* those of the container the start phase of that restart created.
C11_RestartRecordsNewUnit ==
    [][\A t \in OpTasks :
        RestartCompletes(t) =>
            LET d == task[t].obj.id
            IN  /\ db'[d].status = "running"
                /\ db'[d].last_used = task[t].obj.last_used
                /\ db'[d].container_id = task[t].container
                /\ db'[d].ip_address = task[t].container
                /\ db'[d].webrtc_port = task[t].obj.webrtc_port
                /\ db'[d].adb_port = task[t].obj.adb_port]_vars

\* C18: however the boot wait ends, start_device returns: the request goes
\* on to its commit with the object running and both ports of the attempt
\* still marked allocated; and when the boot wait of a start of a device
\* loaded as stopped timed out or raised, the commit records running, the
\* new container id, its address and both ports on the row, the ports still
\* marked allocated.
C18_BootTimeoutNotFatal ==
    [][\A t \in OpTasks :
        /\ (task[t].pc = "gate" /\ task'[t].pc # "gate") =>
              /\ task'[t].pc = "commit"
              /\ task'[t].obj.status = "running"
              /\ task'[t].obj.webrtc_port # None /\ task'[t].obj.adb_port # None
              /\ {task'[t].obj.webrtc_port, task'[t].obj.adb_port} \subseteq Allocated("api")'
              /\ task[t].op = "start" =>
                    /\ task'[t].obj.container_id = task[t].container
                    /\ task'[t].obj.ip_address = task[t].container
        /\ ( /\ task[t].pc = "commit" /\ task'[t].pc = "idle"
             /\ task[t].op = "start" /\ task[t].boot \in {"timeout", "error"}
             /\ task[t].loaded.status = "stopped"
             /\ db[task[t].obj.id].exists ) =>
              LET d == task[t].obj.id
              IN  /\ db'[d].status = "running"
                  /\ db'[d].container_id = task[t].container
                  /\ db'[d].ip_address = task[t].container
                  /\ db'[d].webrtc_port = task[t].obj.webrtc_port
                  /\ db'[d].adb_port = task[t].obj.adb_port
                  /\ {db'[d].webrtc_port, db'[d].adb_port} \subseteq Allocated("api")']_vars

\* The boot wait of a start timed out after the container was created, and
\* start_device has returned to control_device.
C18_Witness ==
    \E t \in OpTasks :
        /\ task[t].pc = "commit" /\ task[t].op = "start" /\ task[t].boot = "timeout"
        /\ task[t].loaded.status = "stopped"
        /\ Live(task[t].container) /\ task[t].obj.status = "running"

\* The step in which a start or restart request is cancelled.
Cancelled(t) ==
    /\ task[t].op \in {"start", "restart"}
    /\ \/ task'[t].op = "cancelled"
       \/ task[t].pc = "gate" /\ task'[t].pc = "idle"

\* C19: when a start is cancelled while it waits for the container to be
\* created or for the boot wait, neither port allocated for the attempt is
\* marked allocated afterwards.
C19_CancelReleasesPorts ==
    [][\A t \in OpTasks :
        Cancelled(t) =>
            /\ task[t].obj.webrtc_port \notin Allocated("api")'
            /\ task[t].obj.adb_port \notin Allocated("api")']_vars

\* The devices a reaper loop has still to stop in the iteration it is in.
Remaining(r) ==
    IF task[r].pc = "idle" THEN {}
    ELSE {task[r].obj.id} \cup {task[r].queue[i].id : i \in DOMAIN task[r].queue}

\* The step in which reaper loop r runs its query.
Queries(r, loop) ==
    /\ hist'.tick.loop = loop
    /\ hist'.tick # hist.tick \/ (task[r].pc = "idle" /\ task'[r].pc # "idle")

\* Reaper loop r works through its selection: stop_device returns and the
\* loop goes to the commit of the same device, or raises and the iteration
\* ends; the commit sets that device, and no other, to stopped and the loop
\* goes on to the next one; when the last commit is done every device the
\* query returned is stopped. Rows change at a reaper's commit only.
StopsInTurn(r) ==
    /\ (task[r].pc = "rt_stop" /\ task'[r] # task[r]) =>
          /\ db' = db
          /\ \/ /\ task'[r].pc = "commit"
                /\ task'[r].obj.id = task[r].obj.id
                /\ task'[r].queue = task[r].queue
             \/ task'[r].pc = "idle"
    /\ (task[r].pc = "commit" /\ task'[r] # task[r]) =>
          LET d == task[r].obj.id
          IN  /\ db'[d].status = "stopped"
              /\ \A e \in DOMAIN db \ {d} : db'[e] = db[e]
              /\ Remaining(r)' = Remaining(r) \ {d}
              /\ task'[r].pc = "idle" =>
                    \A e \in hist.tick.selected : db'[e].status = "stopped"
    /\ db' # db => \E r2 \in ReaperTasks : task[r2].pc = "commit"

Min(a, b) == IF a <= b THEN a ELSE b

StaleRemaining ==
    IF call["stale_reaper"].pc = "idle" THEN {}
    ELSE {call["stale_reaper"].session} \cup
         {call["stale_reaper"].queue[i].id : i \in DOMAIN call["stale_reaper"].queue}

C16_OneLiveSessionPerDevice ==
    \A d \in DOMAIN db :
        Cardinality({s \in DOMAIN sessions :
                        /\ sessions[s].device_id = d
                        /\ sessions[s].status \in {"active", "disconnected"}}) <= 1

\* C20: the idle reaper selects no device on which the websocket loop of a
\* session handled a message within the last 30 minutes.
C20_ActiveDeviceNotReaped ==
    [][(task["idle_reaper"].pc = "idle" /\ task'["idle_reaper"].pc # "idle") =>
          \A d \in Remaining("idle_reaper")' :
              ~ /\ call["ws"].pc = "open"
                /\ call["ws"].device.id = d
                /\ call["ws"].at # Never
                /\ call["ws"].at + IDLE_MINUTES >= now]_vars

\* C17: a call of adb_wait_for_boot never waits longer than its timeout.
C17_GateWithinTimeout == gate.waited <= BootTimeout

\* C21: a device row is deleted only while its status is stopped or error.
C21_DeleteOnlyWhenStopped ==
    [][\A d \in DOMAIN db :
          (db[d].exists /\ ~db'[d].exists) => db[d].status \in {"stopped", "error"}]_vars

\* C30: a stop_device that raises does not end the iteration of a device
\* reaper while devices it selected are still to be stopped.
C30_FailedStopDoesNotEndTick ==
    [][\A r \in ReaperTasks :
          (task[r].pc = "rt_stop" /\ task'[r].pc = "idle") => task[r].queue = << >>]_vars

\* C23: the commit of the websocket's disconnect handler sets the session of
\* the connection to disconnected and leaves its ended_at as it was, null for
\* a session that was not ended; no other session changes, and the device
\* rows, the containers, both port allocators and the leases are untouched.
C23_DisconnectFrame ==
    [][(call["ws"].pc = "commit" /\ call'["ws"] # call["ws"]) =>
          LET s == call["ws"].session
          IN  /\ DOMAIN sessions' = DOMAIN sessions
              /\ sessions'[s].status = "disconnected"
              /\ sessions'[s].ended_at = sessions[s].ended_at
              /\ sessions[s].status = "active" => sessions'[s].ended_at = Never
              /\ sessions'[s] = [sessions[s] EXCEPT !.status = "disconnected"]
              /\ \A x \in DOMAIN sessions \ {s} : sessions'[x] = sessions[x]
              /\ db' = db /\ containers' = containers
              /\ port_allocator' = port_allocator /\ leases' = leases]_vars

\* The connection of a session has dropped: the session is disconnected with
\* ended_at null, and its device is running with its container and ports.
C23_Witness ==
    /\ call["ws"].pc = "idle"
    /\ \E s \in DOMAIN sessions :
          /\ sessions[s].status = "disconnected"
          /\ sessions[s].ended_at = Never
          /\ db[sessions[s].device_id].status = "running"
          /\ db[sessions[s].device_id].webrtc_port # None
          /\ containers[db[sessions[s].device_id].container_id].state = "running"

\* C28: the signaling loop handles a message only while the device of its
\* session is running.
C28_MessagesOnlyWhileRunning ==
    [][(/\ call["ws"].pc = "open" /\ call'["ws"].pc = "open"
        /\ call'["ws"].at # call["ws"].at) =>
          LET d == call["ws"].device.id
          IN  db[d].exists /\ db[d].status = "running"]_vars

\* C29: a session that is not ended has ended_at null.
C29_EndedAtOnlyWhenEnded ==
    \A s \in DOMAIN sessions :
        sessions[s].ended_at # Never => sessions[s].status = "ended"

C24_DisconnectReleasesBinding ==
    [][(call["ws"].pc = "commit" /\ call'["ws"].pc = "idle") =>
          /\ call["ws"].device.container_id \notin DOMAIN webrtc'.peer_connections
          /\ \A i \in DOMAIN webrtc'.pcs : webrtc'.pcs[i].closed]_vars

\* C25: at no time are two peer connections of one session open.
C25_OneLiveBinding == Cardinality(live) <= 1

\* C26: a malformed message (text that is not JSON, JSON that is not an
\* object, an object without a type, an offer without sdp) is answered with
\* an error response and leaves the connection open.
C26_MalformedAnswered ==
    [][(InvalidJson \/ NotAnObject \/ UnknownType \/ HandleOffer("no_sdp")) =>
          /\ call'["ws"].pc = "open"
          /\ webrtc'.response = "error"]_vars

\* v lies in [0, extent - 1].
InRange(v, extent) == 0 <= v.num /\ v.num <= (extent - 1) * v.den

\* C27: the coordinates of every tap and swipe sent to adb lie within
\* [0, W-1] x [0, H-1].
C27_CoordinatesWithinDisplay ==
    webrtc.sent.cmd \in {"tap", "swipe"} =>
        \A i \in DOMAIN webrtc.sent.args :
            InRange(webrtc.sent.args[i], IF i % 2 = 1 THEN DISPLAY_W ELSE DISPLAY_H)

\* A start (or the start phase of a restart on a device without container
\* id) whose allocation of the two ports raised: the request ended in the
\* step that began it.
StartExhausted(t, d) ==
    /\ ControlStart(t, d) \/ (ControlRestart(t, d) /\ load(d).container_id = None)
    /\ ~start_device_enter(port_allocator["api"], load(d)).ok

\* C31: when start fails because the allocator cannot supply both ports, no
\* port allocated during that attempt remains marked allocated and no
\* container is created.
C31_ExhaustedStartKeepsNothing ==
    [][\A t \in OpTasks, d \in Devices :
        StartExhausted(t, d) =>
            /\ Allocated("api")' = Allocated("api")
            /\ containers' = containers]_vars

\* The ports recorded on the rows whose status is running.
RunningPorts ==
    UNION {{db[d].webrtc_port, db[d].adb_port} \ {None} :
              d \in {e \in Devices : db[e].exists /\ db[e].status = "running"}}

\* C32: whenever no lifecycle operation is in flight, the ports marked
\* allocated in the operator path's allocator are exactly the ports recorded
\* on the running devices.
C32_PortConservation ==
    Busy = {} => Allocated("api") = RunningPorts

\* C33: whenever a row is stopped and no operation on that device is in
\* flight, no container of that device is running.
C33_StoppedMeansNoUnitRunning ==
    \A d \in Devices :
        (db[d].exists /\ db[d].status = "stopped" /\ On(d) = {}) =>
            \A cid \in Named(d) : containers[cid].state # "running"

\* Two operator requests at once: start, stop and restart calls for the
\* devices, interleaved at every await.
StartRaceNext ==
    \/ \E t \in OpTasks, d \in Devices : ControlStart(t, d)
    \/ \E t \in OpTasks, d \in Devices : ControlStop(t, d)
    \/ \E t \in OpTasks, d \in Devices : ControlRestart(t, d)
    \/ \E t \in OpTasks, fail \in BOOLEAN : RtRemove(t, fail)
    \/ \E t \in OpTasks, fail \in BOOLEAN : RtRun(t, fail)
    \/ \E t \in OpTasks, outcome \in GateOutcomes : Gate(t, outcome)
    \/ \E t \in OpTasks, fail \in BOOLEAN : RtStop(t, fail)
    \/ \E t \in OpTasks : Commit(t)

StartRaceSpec == Init /\ [][StartRaceNext]_vars

C35_EndedIsTerminal ==
    [][\A s \in DOMAIN sessions :
        sessions[s].status = "ended" => sessions'[s].status = "ended"]_vars

\* C36: a disconnected session never returns to active: from disconnected a
\* step leads only to ended; and a signaling connection gets past the token
\* check, towards its message loop, only for a session that is active then.
C36_DisconnectedNeverActive ==
    [][/\ \A s \in DOMAIN sessions :
            sessions[s].status = "disconnected" =>
                sessions'[s].status \in {"disconnected", "ended"}
       /\ (call["ws"].pc = "idle" /\ call'["ws"].pc # "idle") =>
            sessions[call'["ws"].session].status = "active"
       /\ (call["ws"].pc # "open" /\ call'["ws"].pc = "open") =>
            call["ws"].pc = "verify"]_vars

\* A session is disconnected, its connection gone, while a connection made
\* later serves another session.
C36_Witness ==
    \E s, r \in DOMAIN sessions :
        /\ s # r /\ sessions[s].status = "disconnected"
        /\ call["ws"].pc = "open" /\ call["ws"].session = r

\* C37: a signaling message is handled for a session only while the status
\* of that session is active.
C37_MessagesOnlyWhileActive ==
    [][WsMessage => sessions[call["ws"].session].status = "active"]_vars

\* C38: when the Docker stop of an operator's stop request raises, no port
\* is freed, the request ends and the row, the marks and the containers are
\* as before; when the container recorded on the object is not found,
\* stop_device returns, neither port of the object is marked afterwards and
\* the commit leaves the row stopped.
C38_StopFailureAndNotFound ==
    [][\A t \in OpTasks :
        LET o == task[t].obj
        IN  /\ (task[t].op = "stop" /\ task[t].pc = "rt_stop" /\ task'[t].pc = "idle") =>
                  /\ Allocated("api")' = Allocated("api")
                  /\ db' = db
                  /\ containers' = containers
            /\ (task[t].op = "stop" /\ task[t].pc = "rt_stop"
                    /\ task'[t].pc \notin {"rt_stop", "idle"}
                    /\ ~Live(o.container_id)) =>
                  /\ task'[t].pc = "commit"
                  /\ o.webrtc_port \notin Allocated("api")'
                  /\ o.adb_port \notin Allocated("api")'
                  /\ containers' = containers
            /\ (task[t].op = "stop" /\ task[t].pc = "commit" /\ task'[t].pc = "idle"
                    /\ o.container_id # None /\ ~Live(o.container_id)) =>
                  db'[o.id].status = "stopped"]_vars

\* A stop of a running device whose recorded container no longer exists
\* has returned from stop_device: both ports were marked and are not any
\* more, and the request is at its commit.
C38_Witness ==
    \E t \in OpTasks :
        /\ task[t].op = "stop" /\ task[t].pc = "commit"
        /\ task[t].loaded.status = "running"
        /\ task[t].obj.container_id # None /\ ~Live(task[t].obj.container_id)
        /\ task[t].obj.webrtc_port # None
        /\ task[t].obj.webrtc_port \notin Allocated("api")
        /\ task[t].obj.adb_port \notin Allocated("api")

\* The container recorded on object o is gone.
Destroyed(cs, o) ==
    o.container_id \in DOMAIN cs => cs[o.container_id].state = "removed"

====
